---- MODULE Spec2Model ----
(***************************************************************************)
(* Event ticketing API: the store (users, events, tickets, attendance      *)
(* logs), the ticket handlers (PurchaseTicket, ValidateTicket), the event  *)
(* handler CreateEvent, the auth handlers (Register, Login) and the        *)
(* middleware chain (JWTAuth, AdminAuth) of setupRoutes.                   *)
(*                                                                         *)
(* Every handler is a sequence of steps, one step per store call, run by a *)
(* request slot; local computation is folded into the step of the store    *)
(* call that follows it.  Store calls are taken to succeed.                *)
(***************************************************************************)
EXTENDS Integers, Sequences, FiniteSets, TLC

VARIABLES
  users, events, tickets, logs,  \* the tables of the store
  nextID,                        \* the next primary key of each table
  now,                           \* the clock, in units of twelve hours
  req,                           \* the request slots
  issued,                        \* the tokens clients hold, as their claims
  registered                     \* history: the registrations answered 201

vars == <<users, events, tickets, logs, nextID, now, req, issued, registered>>

(***************************************************************************)
(* Bounds of the model.                                                    *)
(***************************************************************************)
NumSlots == 2
MaxEvents == 1
MaxCapacity == 2
MaxQuantity == 2
MaxTickets == 3
MaxUsers == 2
MaxTime == 2
MaxClock == 3
MaxTokens == 2

(***************************************************************************)
(* HTTP status codes used by the handlers.                                 *)
(***************************************************************************)
StatusOK == 200
StatusCreated == 201
StatusBadRequest == 400
StatusUnauthorized == 401
StatusForbidden == 403
StatusNotFound == 404
StatusConflict == 409
StatusInternalServerError == 500

\* PurchaseTicketRequest.Quantity: binding:"required,min=1,max=10".
QuantityMin == 1
QuantityMax == 10

Slots == 1..NumSlots
SeqSlots == {1}

\* strconv.ParseUint fails on a path id that is not an unsigned number: -1
\* stands for such an id.
BadID == 0 - 1
NoID == 0

\* The handler copies the user_id of the context into the ticket and decides
\* nothing by it: one caller stands for all.
Callers == {1}
EventIDs == 1..(MaxEvents + 1)
TicketIDs == BadID..(MaxTickets + 1)
\* Neither handler of tickets.go validates the quantity: json.Decode ignores
\* the binding tag, so zero and negative quantities reach the capacity check.
Quantities == BadID..MaxQuantity
Capacities == 0..MaxCapacity
Dates == 0..MaxTime

\* The inputs of PurchaseTicket: the path id, the user_id of the context
\* (NoID: a context without one), the body (bodyOk: it decodes) and its
\* quantity.  The handler tests the first three in this order and returns at
\* the first that fails, so a request that fails one carries defaults in
\* the fields read after it.
PurchaseInputs ==
  {[id |-> BadID, caller |-> NoID, quantity |-> 0, bodyOk |-> TRUE],
   [id |-> 1, caller |-> NoID, quantity |-> 0, bodyOk |-> TRUE],
   [id |-> 1, caller |-> 1, quantity |-> 0, bodyOk |-> FALSE]}
  \cup [id : EventIDs, caller : Callers, quantity : Quantities, bodyOk : {TRUE}]

\* The requests that take part in a race: a request that fails before its
\* first store call, or asks for nothing, reads and writes nothing another
\* request sees.  Overlapping requests are drawn from these.
OverlapPurchaseInputs ==
  {input \in PurchaseInputs : input.id \in 1..MaxEvents /\ input.caller = 1 /\ input.quantity >= 1}
OverlapTicketIDs == 1..MaxTickets

(***************************************************************************)
(* A request slot.                                                         *)
(***************************************************************************)
NoEvent ==
  [id |-> NoID, title |-> "", description |-> "", date |-> 0, location |-> "",
   capacity |-> 0, price |-> 0]
NoTicket == [id |-> NoID, event_id |-> NoID, user_id |-> NoID, qr_code |-> <<>>, status |-> "none"]
\* History: the tables as they were when the request arrived.
NoPre == [users |-> {}, events |-> {}, tickets |-> {}, logs |-> {}]
Pre(snapshot) ==
  IF snapshot
    THEN [users |-> users, events |-> events, tickets |-> tickets, logs |-> logs]
    ELSE NoPre

NoPayload == [id |-> NoID, name |-> "", email |-> <<>>, role |-> ""]
NoPatch ==
  [provided |-> {},
   value |-> [title |-> "", description |-> "", date |-> 0, location |-> "",
              capacity |-> 0, price |-> 0]]
NoBody == [name |-> "", email |-> <<>>, password |-> <<>>]
NoClaims == [user_id |-> NoID, role |-> "", iat |-> 0, exp |-> 0]
NoCtx == [user_id |-> NoID, user_role |-> ""]

Idle ==
  [pc |-> "idle", op |-> "none", caller |-> NoID, id |-> NoID, quantity |-> 0,
   bodyOk |-> TRUE, event |-> NoEvent, ticket |-> NoTicket, i |-> 0,
   created |-> <<>>, status |-> 0, pre |-> NoPre,
   body |-> NoBody, hashed |-> <<>>, token |-> <<>>,
   route |-> "", header |-> <<>>, ctx |-> NoCtx, authed |-> FALSE, invoked |-> FALSE,
   result |-> {}, patch |-> NoPatch, tickets |-> {}, total |-> 0, failed |-> "",
   user |-> NoPayload, stages |-> <<>>, message |-> ""]

\* The handler of slot r, its locals being q, goes on at pc.
Goto(r, q, pc) == [req EXCEPT ![r] = [q EXCEPT !.pc = pc]]

\* The response is written: the handler returns.
Reply(r, q, code) == [req EXCEPT ![r] = [q EXCEPT !.pc = "done", !.status = code]]

\* utils.GenerateQRCode: the three numbers, a fresh UUID and the time in
\* nanoseconds.  The UUID is new at every call: uuid stands for it.
GenerateQRCode(ticketID, eventID, userID, uuid) == <<ticketID, eventID, userID, uuid>>

\* "if req.Quantity > availableCapacity": the request asks for more than is left.
InsufficientOffByOne(quantity, availableCapacity) == quantity >= availableCapacity
Insufficient(quantity, availableCapacity) == quantity > availableCapacity

\* "if ticket.Status == "used"": the ticket has been checked in already.
AlreadyUsedNever(ticket) == FALSE
AlreadyUsed(ticket) == ticket.status = "used"

TicketsOf(eventID) == {t \in tickets : t.event_id = eventID}
LogsOf(ticketID) == {l \in logs : l.ticket_id = ticketID}

(***************************************************************************)
(* EventHandler.CreateEvent: decode the body, create the event.            *)
(***************************************************************************)
\* A JSON object of an event request: the members it has, and their values.
EventFields == {"title", "description", "date", "location", "capacity", "price"}

\* The zero time.Time, which lies before every time of the clock.
ZeroTime == 0 - 2

\* json.Decoder.Decode into CreateEventRequest or UpdateEventRequest: a
\* member the object has not leaves the zero value of its field.
DecodeEvent(json) ==
  [title       |-> IF "title" \in json.provided THEN json.value.title ELSE "",
   description |-> IF "description" \in json.provided THEN json.value.description ELSE "",
   date        |-> IF "date" \in json.provided THEN json.value.date ELSE ZeroTime,
   location    |-> IF "location" \in json.provided THEN json.value.location ELSE "",
   capacity    |-> IF "capacity" \in json.provided THEN json.value.capacity ELSE 0,
   price       |-> IF "price" \in json.provided THEN json.value.price ELSE 0]

\* The handler with the body it is sent: bodyOk says that the body decodes.
CreateEventWith(r, bodyOk, json) ==
  /\ req[r].pc = "idle"
  /\ nextID.event <= MaxEvents
  /\ LET q == [Idle EXCEPT !.op = "create_event", !.bodyOk = bodyOk]
         request == DecodeEvent(json)
         event == [id |-> nextID.event, title |-> request.title,
                   description |-> request.description, date |-> request.date,
                   location |-> request.location, capacity |-> request.capacity,
                   price |-> request.price]
     IN  IF ~bodyOk
           THEN /\ req' = Reply(r, q, StatusBadRequest)
                /\ UNCHANGED <<events, nextID>>
           ELSE /\ events' = events \cup {event}
                /\ req' = Reply(r, [q EXCEPT !.id = event.id], StatusCreated)
                /\ nextID' = [nextID EXCEPT !.event = @ + 1]
  /\ UNCHANGED <<users, tickets, logs, now, issued, registered>>

\* The handler with a body that has every member.
CreateEvent(r, capacity, date) ==
  CreateEventWith(r, TRUE,
    [provided |-> EventFields,
     value |-> [title |-> "Concert", description |-> "Music", date |-> date,
                location |-> "Hall", capacity |-> capacity, price |-> 0]])

(***************************************************************************)
(* EventHandler.UpdateEvent                                                *)
(***************************************************************************)
\* "Update fields if provided": the six tests and assignments.
UpdateFields(event, request) ==
  [event EXCEPT
     !.title       = IF request.title # "" THEN request.title ELSE @,
     !.description = IF request.description # "" THEN request.description ELSE @,
     !.date        = IF request.date # ZeroTime THEN request.date ELSE @,
     !.location    = IF request.location # "" THEN request.location ELSE @,
     !.capacity    = IF request.capacity > 0 THEN request.capacity ELSE @,
     !.price       = IF request.price >= 0 THEN request.price ELSE @]

\* The request arrives; parse the id, load the event, decode the body, set
\* the fields.
UpdateLoad(r, eventID, bodyOk, json, snapshot) ==
  /\ req[r].pc = "idle"
  /\ LET q == [Idle EXCEPT !.op = "update_event", !.id = eventID, !.bodyOk = bodyOk,
                           !.patch = json, !.pre = Pre(snapshot)]
         found == {e \in events : e.id = q.id}
     IN  req' =
           IF q.id = BadID THEN Reply(r, q, StatusBadRequest)
           ELSE IF found = {} THEN Reply(r, q, StatusNotFound)
           ELSE IF ~bodyOk THEN Reply(r, q, StatusBadRequest)
           ELSE Goto(r, [q EXCEPT !.event =
                           UpdateFields(CHOOSE e \in found : TRUE, DecodeEvent(json))],
                     "update_save")
  /\ UNCHANGED <<users, events, tickets, logs, nextID, now, issued, registered>>

\* db.Save(&event): the row with the primary key of the event takes every
\* field of it, and is inserted if the table has no such row.
UpdateSave(r) ==
  /\ req[r].pc = "update_save"
  /\ events' = {e \in events : e.id # req[r].event.id} \cup {req[r].event}
  /\ req' = Reply(r, req[r], StatusOK)
  /\ UNCHANGED <<users, tickets, logs, nextID, now, issued, registered>>

(***************************************************************************)
(* TicketHandler.PurchaseTicket                                            *)
(***************************************************************************)
\* The request arrives; parse the id, read user_id, decode the body, load the
\* event, test its date.
PurchaseLoad(r, input, snapshot) ==
  /\ req[r].pc = "idle"
  /\ LET q == [Idle EXCEPT !.op = "purchase", !.caller = input.caller, !.id = input.id,
                           !.quantity = input.quantity, !.bodyOk = input.bodyOk,
                           !.pre = Pre(snapshot)]
         found == {e \in events : e.id = q.id}
     IN  req' =
           IF q.id = BadID THEN Reply(r, q, StatusBadRequest)
           ELSE IF q.caller = NoID THEN Reply(r, q, StatusUnauthorized)
           ELSE IF ~q.bodyOk THEN Reply(r, q, StatusBadRequest)
           ELSE IF found = {} THEN Reply(r, q, StatusNotFound)
           ELSE LET event == CHOOSE e \in found : TRUE
                IN  IF event.date < now THEN Reply(r, q, StatusBadRequest)
                    ELSE Goto(r, [q EXCEPT !.event = event], "purchase_count")
  /\ UNCHANGED <<users, events, tickets, logs, nextID, now, issued, registered>>

\* Count the event's tickets and compare with the capacity read before.
PurchaseCountWaits(r) ==
  /\ req[r].pc = "purchase_count"
  /\ \A o \in Slots \ {r} : req[o].pc \notin {"purchase_count", "purchase_create"}
  /\ LET q == req[r]
         existingTicketsCount == Cardinality(TicketsOf(q.id))
         availableCapacity == q.event.capacity - existingTicketsCount
     IN  req' =
           IF Insufficient(q.quantity, availableCapacity) THEN Reply(r, q, StatusBadRequest)
           ELSE IF 0 < q.quantity THEN Goto(r, q, "purchase_create")
           ELSE Reply(r, q, StatusCreated)
  /\ UNCHANGED <<users, events, tickets, logs, nextID, now, issued, registered>>

PurchaseCount(r) ==
  /\ req[r].pc = "purchase_count"
  /\ LET q == req[r]
         existingTicketsCount == Cardinality(TicketsOf(q.id))
         availableCapacity == q.event.capacity - existingTicketsCount
     IN  req' =
           IF Insufficient(q.quantity, availableCapacity) THEN Reply(r, q, StatusBadRequest)
           ELSE IF 0 < q.quantity THEN Goto(r, q, "purchase_create")
           ELSE Reply(r, q, StatusCreated)
  /\ UNCHANGED <<users, events, tickets, logs, nextID, now, issued, registered>>

\* "Status: "valid"": the status a ticket is created with.
StatusUsed == "used"
StatusValid == "valid"

\* One iteration of the loop: generate a code, create the ticket.
\* The unique index on tickets.qr_code refuses a code the table holds.
CodeTakenNever(code) == FALSE
CodeTaken(code) == \E t \in tickets : t.qr_code = code

\* The iteration, uuid being the UUID that uuid.New returns in it.
PurchaseCreateWith(r, uuid) ==
  /\ req[r].pc = "purchase_create"
  /\ nextID.ticket <= MaxTickets
  /\ LET q == req[r]
         ticket == [id |-> nextID.ticket, event_id |-> q.id, user_id |-> q.caller,
                    qr_code |-> GenerateQRCode(q.id, q.caller, q.i + 1, uuid),
                    status |-> StatusValid]
         p == [q EXCEPT !.i = @ + 1, !.created = Append(@, ticket.id),
                        !.tickets = @ \cup {ticket}]
     IN  IF CodeTaken(ticket.qr_code)
           THEN /\ req' = Reply(r, [q EXCEPT !.failed = "create"], StatusInternalServerError)
                /\ UNCHANGED <<tickets, nextID>>
           ELSE /\ tickets' = tickets \cup {ticket}
                /\ nextID' = [nextID EXCEPT !.ticket = @ + 1]
                /\ req' = IF p.i < p.quantity THEN Goto(r, p, "purchase_create")
                          ELSE Reply(r, [p EXCEPT !.result = p.tickets,
                                                  !.total = Cardinality(p.tickets)],
                                     StatusCreated)
  /\ UNCHANGED <<users, events, logs, now, issued, registered>>

\* The iteration with a UUID no earlier call returned, as uuid.New gives but
\* for a chance of 2^-122: the number of the ticket stands for it.
PurchaseCreate(r) == PurchaseCreateWith(r, nextID.ticket)

(***************************************************************************)
(* TicketHandler.ValidateTicket                                            *)
(***************************************************************************)
\* The request arrives; parse the id, load the ticket, test its status, set
\* the local copy to used.
ValidateRead(r, ticketID, snapshot) ==
  /\ req[r].pc = "idle"
  /\ LET q == [Idle EXCEPT !.op = "validate", !.id = ticketID,
                           !.pre = Pre(snapshot)]
         found == {t \in tickets : t.id = q.id}
     IN  req' =
           IF q.id = BadID THEN Reply(r, q, StatusBadRequest)
           ELSE IF found = {} THEN Reply(r, q, StatusNotFound)
           ELSE LET ticket == CHOOSE t \in found : TRUE
                IN  IF AlreadyUsed(ticket) THEN Reply(r, q, StatusBadRequest)
                    ELSE Goto(r, [q EXCEPT !.ticket = [ticket EXCEPT !.status = "used"]],
                              "validate_save")
  /\ UNCHANGED <<users, events, tickets, logs, nextID, now, issued, registered>>

\* db.Save writes every field of the local copy over the stored row.
ValidateSave(r) ==
  /\ req[r].pc = "validate_save"
  /\ tickets' = {t \in tickets : t.id # req[r].ticket.id} \cup {req[r].ticket}
  /\ req' = Goto(r, req[r], "validate_log")
  /\ UNCHANGED <<users, events, logs, nextID, now, issued, registered>>

\* Create the attendance log and answer 200.
ValidateLogUpsert(r) ==
  /\ req[r].pc = "validate_log"
  /\ logs' = {l \in logs : l.ticket_id # req[r].ticket.id} \cup
               {[id |-> nextID.log, ticket_id |-> req[r].ticket.id, checked_in_at |-> now]}
  /\ nextID' = [nextID EXCEPT !.log = @ + 1]
  /\ req' = Reply(r, req[r], StatusOK)
  /\ UNCHANGED <<users, events, tickets, now, issued, registered>>

ValidateLog(r) ==
  /\ req[r].pc = "validate_log"
  /\ logs' = logs \cup {[id |-> nextID.log, ticket_id |-> req[r].ticket.id,
                         checked_in_at |-> now]}
  /\ nextID' = [nextID EXCEPT !.log = @ + 1]
  /\ req' = Reply(r, req[r], StatusOK)
  /\ UNCHANGED <<users, events, tickets, now, issued, registered>>

\* db.Save(&ticket) returns an error: nothing is written, the handler
\* answers 500.
ValidateSaveFails(r) ==
  /\ req[r].pc = "validate_save"
  /\ req' = Reply(r, req[r], StatusInternalServerError)
  /\ UNCHANGED <<users, events, tickets, logs, nextID, now, issued, registered>>

\* db.Create(&attendanceLog) returns an error: no log is written, the
\* handler answers 500; the status saved before stays.
ValidateLogFails(r) ==
  /\ req[r].pc = "validate_log"
  /\ req' = Reply(r, req[r], StatusInternalServerError)
  /\ UNCHANGED <<users, events, tickets, logs, nextID, now, issued, registered>>

\* The response has been sent; the client keeps the token it carries, if
\* any, and the slot is free for the next request.
Respond(r) ==
  /\ req[r].pc = "done"
  /\ req' = [req EXCEPT ![r] = Idle]
  /\ issued' = IF req[r].token # <<>> /\ Cardinality(issued) < MaxTokens
                 THEN issued \cup {req[r].token[1].claims}
                 ELSE issued
  /\ UNCHANGED <<users, events, tickets, logs, nextID, now, registered>>

(***************************************************************************)
(* TicketHandler.GetTickets, TicketHandler.GetTicket                       *)
(***************************************************************************)
\* The rows the queries of the two handlers range over: all tickets when
\* user_role is admin, else the tickets whose user_id is that of the context.
VisibleAll(ctx) == tickets
Visible(ctx) ==
  IF ctx.user_role = "admin" THEN tickets
  ELSE {t \in tickets : t.user_id = ctx.user_id}

GetTickets(r, ctx, snapshot) ==
  /\ req[r].pc = "idle"
  /\ LET q == [Idle EXCEPT !.op = "get_tickets", !.ctx = ctx, !.caller = ctx.user_id,
                           !.pre = Pre(snapshot)]
     IN  req' =
           IF ctx.user_id = NoID THEN Reply(r, q, StatusUnauthorized)
           ELSE Reply(r, [q EXCEPT !.result = Visible(ctx)], StatusOK)
  /\ UNCHANGED <<users, events, tickets, logs, nextID, now, issued, registered>>

GetTicket(r, ticketID, ctx, snapshot) ==
  /\ req[r].pc = "idle"
  /\ LET q == [Idle EXCEPT !.op = "get_ticket", !.id = ticketID, !.ctx = ctx,
                           !.caller = ctx.user_id, !.pre = Pre(snapshot)]
         found == {t \in Visible(ctx) : t.id = ticketID}
     IN  req' =
           IF ticketID = BadID THEN Reply(r, q, StatusBadRequest)
           ELSE IF ctx.user_id = NoID THEN Reply(r, q, StatusUnauthorized)
           ELSE IF found = {} THEN Reply(r, q, StatusNotFound)
           ELSE Reply(r, [q EXCEPT !.result = found], StatusOK)
  /\ UNCHANGED <<users, events, tickets, logs, nextID, now, issued, registered>>

(***************************************************************************)
(* EventHandler.DeleteEvent                                                *)
(***************************************************************************)
DeleteEventIDs == {BadID} \cup EventIDs

\* "if ticketCount > 0": the event has tickets.
HasTicketsMoreThanOne(ticketCount) == ticketCount > 1
HasTickets(ticketCount) == ticketCount > 0

\* The request arrives; parse the id, load the event.
DeleteLoad(r, eventID, snapshot) ==
  /\ req[r].pc = "idle"
  /\ LET q == [Idle EXCEPT !.op = "delete_event", !.id = eventID, !.pre = Pre(snapshot)]
         found == {e \in events : e.id = q.id}
     IN  req' =
           IF q.id = BadID THEN Reply(r, q, StatusBadRequest)
           ELSE IF found = {} THEN Reply(r, q, StatusNotFound)
           ELSE Goto(r, [q EXCEPT !.event = CHOOSE e \in found : TRUE], "delete_count")
  /\ UNCHANGED <<users, events, tickets, logs, nextID, now, issued, registered>>

\* Count the tickets of the event.
DeleteCount(r) ==
  /\ req[r].pc = "delete_count"
  /\ LET ticketCount == Cardinality(TicketsOf(req[r].id))
     IN  req' = IF HasTickets(ticketCount) THEN Reply(r, req[r], StatusBadRequest)
                ELSE Goto(r, req[r], "delete_remove")
  /\ UNCHANGED <<users, events, tickets, logs, nextID, now, issued, registered>>

\* db.Delete(&event): the row with the primary key of the event loaded goes;
\* no foreign key ties the tickets to it.
DeleteRemove(r) ==
  /\ req[r].pc = "delete_remove"
  /\ events' = {e \in events : e.id # req[r].event.id}
  /\ req' = Reply(r, req[r], StatusOK)
  /\ UNCHANGED <<users, tickets, logs, nextID, now, issued, registered>>

(***************************************************************************)
(* Store calls of PurchaseTicket and DeleteEvent that return an error.     *)
(* The slot keeps in "failed" the name of the call that failed last.       *)
(***************************************************************************)
\* db.Where("id = ?", ...).First(&event) returns an error other than "record
\* not found": the handler answers 500.
PurchaseLoadFails(r, input, snapshot) ==
  /\ req[r].pc = "idle"
  /\ input.id # BadID /\ input.caller # NoID /\ input.bodyOk
  /\ LET q == [Idle EXCEPT !.op = "purchase", !.caller = input.caller, !.id = input.id,
                           !.quantity = input.quantity, !.bodyOk = input.bodyOk,
                           !.pre = Pre(snapshot), !.failed = "load"]
     IN  req' = Reply(r, q, StatusInternalServerError)
  /\ UNCHANGED <<users, events, tickets, logs, nextID, now, issued, registered>>

\* Count(&existingTicketsCount) returns an error: the handler does not read
\* it, and existingTicketsCount keeps its zero value.
PurchaseCountFails(r) ==
  /\ req[r].pc = "purchase_count"
  /\ LET q == [req[r] EXCEPT !.failed = "count"]
         existingTicketsCount == 0
         availableCapacity == q.event.capacity - existingTicketsCount
     IN  req' =
           IF Insufficient(q.quantity, availableCapacity) THEN Reply(r, q, StatusBadRequest)
           ELSE IF 0 < q.quantity THEN Goto(r, q, "purchase_create")
           ELSE Reply(r, q, StatusCreated)
  /\ UNCHANGED <<users, events, tickets, logs, nextID, now, issued, registered>>

\* db.Create(&ticket) returns an error: the handler answers 500 and returns;
\* the tickets of the iterations before stay.
PurchaseCreateFailsRollback(r) ==
  /\ req[r].pc = "purchase_create"
  /\ req' = Reply(r, [req[r] EXCEPT !.failed = "create"], StatusInternalServerError)
  /\ tickets' = tickets \ req[r].tickets
  /\ UNCHANGED <<users, events, logs, nextID, now, issued, registered>>

PurchaseCreateFails(r) ==
  /\ req[r].pc = "purchase_create"
  /\ req' = Reply(r, [req[r] EXCEPT !.failed = "create"], StatusInternalServerError)
  /\ UNCHANGED <<users, events, tickets, logs, nextID, now, issued, registered>>

\* The load of DeleteEvent returns an error other than "record not found".
DeleteLoadFails(r, eventID, snapshot) ==
  /\ req[r].pc = "idle"
  /\ eventID # BadID
  /\ LET q == [Idle EXCEPT !.op = "delete_event", !.id = eventID, !.pre = Pre(snapshot),
                           !.failed = "load"]
     IN  req' = Reply(r, q, StatusInternalServerError)
  /\ UNCHANGED <<users, events, tickets, logs, nextID, now, issued, registered>>

\* Count(&ticketCount) returns an error: the handler does not read it, and
\* ticketCount keeps its zero value.
DeleteCountFails(r) ==
  /\ req[r].pc = "delete_count"
  /\ LET q == [req[r] EXCEPT !.failed = "count"]
         ticketCount == 0
     IN  req' = IF HasTickets(ticketCount) THEN Reply(r, q, StatusBadRequest)
                ELSE Goto(r, q, "delete_remove")
  /\ UNCHANGED <<users, events, tickets, logs, nextID, now, issued, registered>>

\* db.Delete(&event) returns an error: the handler answers 500.
DeleteRemoveFails(r) ==
  /\ req[r].pc = "delete_remove"
  /\ req' = Reply(r, [req[r] EXCEPT !.failed = "delete"], StatusInternalServerError)
  /\ UNCHANGED <<users, events, tickets, logs, nextID, now, issued, registered>>

(***************************************************************************)
(* Strings.  A password, a hash and an e-mail address are sequences of     *)
(* characters; a token string and an Authorization header are sequences of *)
(* pieces, one piece for "Bearer ", one for the header and payload         *)
(* segments of a token and one for its signature segment.                  *)
(***************************************************************************)
Secret1 == <<"s", "e", "c", "r", "e", "t", "1">>
Hunter2 == <<"h", "u", "n", "t", "e", "r", "2">>
ShortPassword == <<"a", "b", "c">>
AliceEmail == <<"a", "@", "x.com">>
BobEmail == <<"b", "@", "x.com">>
NotAnEmail == <<"a", "x.com">>

\* bcrypt.GenerateFromPassword: a string from which bcrypt recomputes the
\* hash of a candidate password; the salt and the cost are left out, since
\* nothing compares two hashes of one password.
BcryptHash(password) == <<"$2a$">> \o password

\* auth.HashPassword
HashPassword(password) == BcryptHash(password)

\* models.hashPassword
hashPassword(password) == BcryptHash(password)

\* auth.CheckPassword: bcrypt.CompareHashAndPassword returns nil exactly
\* when hash is a bcrypt hash of password.
CheckPasswordAlways(password, hash) == TRUE
CheckPassword(password, hash) == hash = BcryptHash(password)

\* User.BeforeCreate: the hook db.Create runs on a user; it hashes whatever
\* the Password field holds, unless that is empty.
BeforeCreate(user) ==
  IF Len(user.password) = 0 THEN user
  ELSE [user EXCEPT !.password = hashPassword(user.password)]

jwtKey == "your-secret-key-change-this-in-production"
OtherKey == "another-key"

\* Token valid for 24 hours: two units of the clock.
TokenTTL == 2

BearerPiece == [kind |-> "Bearer ", claims |-> NoClaims, key |-> ""]
JunkPiece == [kind |-> "junk", claims |-> NoClaims, key |-> ""]

\* token.SignedString(key): the segments of the token string.
SignedString(claims, key) ==
  <<[kind |-> "payload", claims |-> claims, key |-> ""],
    [kind |-> "signature", claims |-> claims, key |-> key]>>

\* auth.GenerateToken
GenerateToken(user) ==
  SignedString([user_id |-> user.id, role |-> user.role,
                iat |-> now, exp |-> now + TokenTTL], jwtKey)

\* jwt.DecodeSegment: the bytes of a segment.  It pads the segment and
\* decodes it with base64.URLEncoding, which accepts a segment that carries
\* its padding: the signature segment with "=" appended is another string
\* with the same bytes.
DecodeSegment(seg) ==
  IF seg.kind = "signature=" THEN [seg EXCEPT !.kind = "signature"] ELSE seg

\* StandardClaims.Valid: the time is not before iat and not after exp.
InTimeNoExpiry(claims) == claims.iat <= now
InTime(claims) == claims.iat <= now /\ now <= claims.exp

\* auth.ValidateToken: jwt.ParseWithClaims into a *Claims with jwtKey.  The
\* string must split into its segments, the signature must be the one jwtKey
\* gives for the payload, and the time must lie between iat and exp.  The
\* token returned holds the *Claims it was parsed into.
ValidateToken(tokenString) ==
  LET wellFormed == /\ Len(tokenString) = 2
                    /\ tokenString[1].kind = "payload"
                    /\ DecodeSegment(tokenString[2]).kind = "signature"
      signed == /\ DecodeSegment(tokenString[2]).key = jwtKey
                /\ DecodeSegment(tokenString[2]).claims = tokenString[1].claims
      claims == tokenString[1].claims
  IN  IF wellFormed /\ signed /\ InTime(claims)
        THEN [err |-> FALSE, claimsType |-> "*auth.Claims", claims |-> claims]
        ELSE [err |-> TRUE, claimsType |-> "", claims |-> NoClaims]

\* strings.Replace(s, "Bearer ", "", 1): s without its first "Bearer ".
RECURSIVE ReplaceBearer(_)
ReplaceBearer(s) ==
  IF s = <<>> THEN <<>>
  ELSE IF Head(s) = BearerPiece THEN Tail(s)
  ELSE <<Head(s)>> \o ReplaceBearer(Tail(s))

\* "claims, ok := token.Claims.(jwt.MapClaims)": the type assertion holds
\* when the token's claims are a jwt.MapClaims.
IsMapClaimsAlways(token) == TRUE
IsMapClaims(token) == token.claimsType = "jwt.MapClaims"

(***************************************************************************)
(* middleware.JWTAuth and middleware.AdminAuth, as functions of the        *)
(* request: the status written, whether next is called, and the context    *)
(* passed to it.                                                           *)
(***************************************************************************)
\* The outcome of a middleware carries in "stages" the calls it made, in the
\* order of the code: "presented" for the call of auth.ValidateToken with the
\* string after "Bearer ", "validated" for its return without error,
\* "lookup" for the query of the user, "resolved" for the user found,
\* "role" for the test of AdminAuth, "authorized" for its call of next.
Denied(code) == [next |-> FALSE, status |-> code, ctx |-> NoCtx, stages |-> <<>>]

After(stages, outcome) == [outcome EXCEPT !.stages = stages]

JWTAuth(authHeader) ==
  IF authHeader = <<>> THEN Denied(StatusUnauthorized)
  ELSE LET tokenString == ReplaceBearer(authHeader)
       IN  IF tokenString = authHeader THEN Denied(StatusUnauthorized)
           ELSE LET token == ValidateToken(tokenString)
                IN  IF token.err
                      THEN After(<<"presented">>, Denied(StatusUnauthorized))
                    ELSE IF ~IsMapClaims(token)
                      THEN After(<<"presented", "validated">>, Denied(StatusUnauthorized))
                    ELSE IF \A u \in users : u.id # token.claims.user_id
                      THEN After(<<"presented", "validated", "lookup">>,
                                 Denied(StatusUnauthorized))
                    ELSE [next |-> TRUE, status |-> 0,
                          ctx |-> [user_id |-> token.claims.user_id,
                                   user_role |-> token.claims.role],
                          stages |-> <<"presented", "validated", "lookup", "resolved">>]

AdminAuth(ctx) ==
  IF ctx.user_role = "" THEN After(<<"role">>, Denied(StatusUnauthorized))
  ELSE IF ctx.user_role # "admin" THEN After(<<"role">>, Denied(StatusForbidden))
  ELSE [next |-> TRUE, status |-> 0, ctx |-> ctx, stages |-> <<"role", "authorized">>]

\* setupRoutes: the protected group uses JWTAuth, the admin group JWTAuth
\* and then AdminAuth.
Routes == {"protected", "admin"}

\* A request to a route of the protected or the admin group arrives and the
\* chain of its group runs.  The handler at the end of the chain is stood
\* for by its invocation.
\* The admin group with its two middlewares registered the other way round.
ServeRouteAdminFirst(r, route, authHeader, snapshot) ==
  /\ req[r].pc = "idle"
  /\ LET q == [Idle EXCEPT !.op = "route", !.route = route, !.header = authHeader,
                           !.pre = Pre(snapshot)]
         first == IF route = "admin" THEN AdminAuth(NoCtx)
                  ELSE [next |-> TRUE, status |-> 0, ctx |-> NoCtx, stages |-> <<>>]
         jwt == IF first.next THEN JWTAuth(authHeader) ELSE first
     IN  req' = Reply(r, [q EXCEPT !.authed = jwt.next, !.invoked = jwt.next,
                                   !.ctx = jwt.ctx,
                                   !.stages = first.stages \o
                                     (IF first.next THEN jwt.stages ELSE <<>>) \o
                                     (IF jwt.next THEN <<"handler">> ELSE <<>>)],
                      IF jwt.next THEN StatusOK ELSE jwt.status)
  /\ UNCHANGED <<users, events, tickets, logs, nextID, now, issued, registered>>

ServeRoute(r, route, authHeader, snapshot) ==
  /\ req[r].pc = "idle"
  /\ LET q == [Idle EXCEPT !.op = "route", !.route = route, !.header = authHeader,
                           !.pre = Pre(snapshot)]
         jwt == JWTAuth(authHeader)
         last == IF jwt.next /\ route = "admin" THEN AdminAuth(jwt.ctx) ELSE jwt
     IN  req' = Reply(r, [q EXCEPT !.authed = jwt.next, !.invoked = last.next,
                                   !.ctx = IF jwt.next THEN jwt.ctx ELSE NoCtx,
                                   !.stages = jwt.stages \o
                                     (IF jwt.next /\ route = "admin" THEN last.stages
                                      ELSE <<>>) \o
                                     (IF last.next THEN <<"handler">> ELSE <<>>)],
                      IF last.next THEN StatusOK ELSE last.status)
  /\ UNCHANGED <<users, events, tickets, logs, nextID, now, issued, registered>>

(***************************************************************************)
(* AuthHandler.Register, AuthHandler.Login, AuthHandler.Logout             *)
(***************************************************************************)
MinPasswordLen == 6

\* The validator's "email" rule: a local part, an at sign, a domain.
IsEmail(email) == Len(email) = 3 /\ email[2] = "@"

\* ShouldBindJSON(&RegisterRequest): name required; email required, email;
\* password required, min=6.
BindRegister(body) ==
  /\ body.name # ""
  /\ IsEmail(body.email)
  /\ Len(body.password) >= MinPasswordLen

\* ShouldBindJSON(&LoginRequest): email required, email; password required.
BindLogin(body) == IsEmail(body.email) /\ Len(body.password) > 0

UsersWithEmail(email) == {u \in users : u.email = email}

\* "h.db.Where("email = ?", req.Email).First(&existingUser).Error; err == nil"
EmailTakenNever(email) == FALSE
EmailTaken(email) == UsersWithEmail(email) # {}

\* "user.Password = """ and the encoding of AuthResponse.User: the members
\* of the JSON object are the fields of User whose tag is not "-".
UserPayloadStored(user) == user
UserPayload(user) ==
  [id |-> user.id, name |-> user.name, email |-> user.email, role |-> user.role]

\* "Role: "user"": the role of the user that Register creates; the binding
\* into RegisterRequest drops every member of the body but name, email and
\* password.
RegisterRoleFromBody(body) == IF "role" \in DOMAIN body THEN body.role ELSE "user"
RegisterRole(body) == "user"

\* The request arrives; bind the body, look the e-mail address up, hash the
\* password.
RegisterLookup(r, body, snapshot) ==
  /\ req[r].pc = "idle"
  /\ LET q == [Idle EXCEPT !.op = "register", !.body = body, !.pre = Pre(snapshot)]
     IN  req' =
           IF ~BindRegister(body) THEN Reply(r, q, StatusBadRequest)
           ELSE IF EmailTaken(body.email) THEN Reply(r, q, StatusConflict)
           ELSE Goto(r, [q EXCEPT !.hashed = HashPassword(body.password)], "register_create")
  /\ UNCHANGED <<users, events, tickets, logs, nextID, now, issued, registered>>

\* db.Create(&user): the BeforeCreate hook runs, then the row is inserted
\* unless the unique index on email refuses it; then the token is generated.
RegisterCreate(r) ==
  /\ req[r].pc = "register_create"
  /\ nextID.user <= MaxUsers
  /\ LET q == req[r]
         user == BeforeCreate([id |-> nextID.user, name |-> q.body.name,
                               email |-> q.body.email, password |-> q.hashed,
                               role |-> RegisterRole(q.body)])
     IN  IF UsersWithEmail(user.email) # {}
           THEN /\ req' = Reply(r, q, StatusInternalServerError)
                /\ UNCHANGED <<users, nextID, registered>>
           ELSE /\ users' = users \cup {user}
                /\ nextID' = [nextID EXCEPT !.user = @ + 1]
                /\ req' = Reply(r, [q EXCEPT !.id = user.id, !.token = GenerateToken(user),
                                                  !.user = UserPayload(user)],
                                StatusCreated)
                /\ registered' = registered \cup
                     {[id |-> user.id, email |-> q.body.email, password |-> q.body.password]}
  /\ UNCHANGED <<events, tickets, logs, now, issued>>

\* The "error" member of the two refusals of Login.
NoSuchUserMessage == "Invalid credentials"
WrongPasswordMessageTelling == "Wrong password"
WrongPasswordMessage == "Invalid credentials"

\* The request arrives; bind the body, find the user by e-mail address,
\* check the password, generate the token.
Login(r, body, snapshot) ==
  /\ req[r].pc = "idle"
  /\ LET q == [Idle EXCEPT !.op = "login", !.body = body, !.pre = Pre(snapshot)]
         found == UsersWithEmail(body.email)
     IN  req' =
           IF ~BindLogin(body) THEN Reply(r, q, StatusBadRequest)
           ELSE IF found = {}
             THEN Reply(r, [q EXCEPT !.message = NoSuchUserMessage], StatusUnauthorized)
           ELSE LET user == CHOOSE u \in found : TRUE
                IN  IF ~CheckPassword(body.password, user.password)
                      THEN Reply(r, [q EXCEPT !.message = WrongPasswordMessage],
                                 StatusUnauthorized)
                      ELSE Reply(r, [q EXCEPT !.id = user.id, !.token = GenerateToken(user),
                                                   !.user = UserPayload(user)],
                                 StatusOK)
  /\ UNCHANGED <<users, events, tickets, logs, nextID, now, issued, registered>>

\* Logout answers without reading the request or the store.
LogoutUnauthorized(r, snapshot) ==
  /\ req[r].pc = "idle"
  /\ req' = Reply(r, [Idle EXCEPT !.op = "logout", !.pre = Pre(snapshot)], StatusUnauthorized)
  /\ UNCHANGED <<users, events, tickets, logs, nextID, now, issued, registered>>

Logout(r, snapshot) ==
  /\ req[r].pc = "idle"
  /\ req' = Reply(r, [Idle EXCEPT !.op = "logout", !.pre = Pre(snapshot)], StatusOK)
  /\ UNCHANGED <<users, events, tickets, logs, nextID, now, issued, registered>>

\* Time passes.
Tick ==
  /\ now < MaxClock
  /\ now' = now + 1
  /\ UNCHANGED <<users, events, tickets, logs, nextID, req, issued, registered>>

\* A row of the users table is deleted by other means than the API, which
\* has no operation that deletes a user.
StoreDeleteUser(u) ==
  /\ u \in users
  /\ users' = users \ {u}
  /\ UNCHANGED <<events, tickets, logs, nextID, now, req, issued, registered>>

\* The roles of a user.
Roles == {"user", "admin"}

\* The role of a row of the users table is changed by other means than the
\* API, which has no operation that changes a role.
StoreSetRole(u, role) ==
  /\ u \in users
  /\ u.role # role
  /\ users' = (users \ {u}) \cup {[u EXCEPT !.role = role]}
  /\ UNCHANGED <<events, tickets, logs, nextID, now, req, issued, registered>>

(***************************************************************************)
(* The ticket workflows: requests that overlap (SpecTickets) and requests  *)
(* run one after another (SpecTicketsSeq).                                 *)
(***************************************************************************)
InitTickets ==
  /\ users = {}
  /\ events = {}
  /\ tickets = {}
  /\ logs = {}
  /\ nextID = [user |-> 1, event |-> 1, ticket |-> 1, log |-> 1]
  /\ now = 1
  /\ req = [r \in Slots |-> Idle]
  /\ issued = {}
  /\ registered = {}

TicketStep(r, purchases, ticketIDs, snapshot) ==
  \/ \E capacity \in Capacities, date \in Dates : CreateEvent(r, capacity, date)
  \/ \E input \in purchases : PurchaseLoad(r, input, snapshot)
  \/ PurchaseCount(r)
  \/ PurchaseCreate(r)
  \/ \E ticketID \in ticketIDs : ValidateRead(r, ticketID, snapshot)
  \/ ValidateSave(r)
  \/ ValidateLog(r)
  \/ Respond(r)

NextTickets ==
  \E r \in Slots : TicketStep(r, OverlapPurchaseInputs, OverlapTicketIDs, FALSE)

NextTicketsSeq ==
  \E r \in SeqSlots : TicketStep(r, PurchaseInputs, TicketIDs, TRUE)

SpecTickets == InitTickets /\ [][NextTickets]_vars
SpecTicketsSeq == InitTickets /\ [][NextTicketsSeq]_vars

(***************************************************************************)
(* The auth workflows, requests run one after another: the API alone       *)
(* (SpecAuth), and the API with users deleted behind it (SpecGate).        *)
(***************************************************************************)
Emails == {AliceEmail, BobEmail}
Passwords == {Secret1, Hunter2}

\* Bodies the binding refuses, and the bodies it accepts.
RegisterInputs ==
  {[name |-> "", email |-> AliceEmail, password |-> Secret1],
   [name |-> "Alice", email |-> NotAnEmail, password |-> Secret1],
   [name |-> "Alice", email |-> AliceEmail, password |-> ShortPassword]}
  \cup [name : {"Alice"}, email : Emails, password : Passwords]

\* A login may send any string as the password, the hash of one included.
LoginInputs ==
  {[name |-> "", email |-> NotAnEmail, password |-> Secret1],
   [name |-> "", email |-> AliceEmail, password |-> <<>>]}
  \cup [name : {""}, email : Emails,
        password : Passwords \cup {HashPassword(p) : p \in Passwords}]

BearerHeader(tokenString) == <<BearerPiece>> \o tokenString

\* The Authorization headers a client may send: none, "Bearer " alone,
\* "Bearer " and junk, and for each token it holds: the token without
\* "Bearer ", the token after "Bearer ", the token with "Bearer " between
\* its segments, the claims signed with another key, and the claims changed
\* to the admin role under the signature of the token.
AuthHeaders ==
  {<<>>, <<BearerPiece>>, <<BearerPiece, JunkPiece>>}
  \cup {SignedString(c, jwtKey) : c \in issued}
  \cup {BearerHeader(SignedString(c, jwtKey)) : c \in issued}
  \cup {<<SignedString(c, jwtKey)[1], BearerPiece, SignedString(c, jwtKey)[2]>> : c \in issued}
  \cup {BearerHeader(SignedString(c, OtherKey)) : c \in issued}
  \cup {BearerHeader(<<SignedString([c EXCEPT !.role = "admin"], jwtKey)[1],
                       SignedString(c, jwtKey)[2]>>) : c \in issued}

InitAuth ==
  /\ users = {}
  /\ events = {}
  /\ tickets = {}
  /\ logs = {}
  /\ nextID = [user |-> 1, event |-> 1, ticket |-> 1, log |-> 1]
  /\ now = 0
  /\ req = [r \in Slots |-> Idle]
  /\ issued = {}
  /\ registered = {}

AuthStep(r, snapshot) ==
  \/ \E body \in RegisterInputs : RegisterLookup(r, body, snapshot)
  \/ RegisterCreate(r)
  \/ \E body \in LoginInputs : Login(r, body, snapshot)
  \/ Logout(r, snapshot)
  \/ \E route \in Routes, authHeader \in AuthHeaders : ServeRoute(r, route, authHeader, snapshot)
  \/ Respond(r)

AllIdle == \A r \in Slots : req[r].pc = "idle"

NextAuth ==
  \/ AllIdle /\ Tick
  \/ \E r \in SeqSlots : AuthStep(r, TRUE)

NextGate ==
  \/ AllIdle /\ Tick
  \/ AllIdle /\ \E u \in users : StoreDeleteUser(u)
  \/ \E r \in SeqSlots : AuthStep(r, TRUE)

SpecAuth == InitAuth /\ [][NextAuth]_vars

\* Registrations whose body has a member "role" besides the members of
\* RegisterRequest, and logins.
RoleBodies ==
  [name : {"Alice"}, email : Emails, password : Passwords]
  \cup [name : {"Alice"}, email : Emails, password : Passwords, role : {"admin", "user"}]

NextRoles ==
  \E r \in SeqSlots :
    \/ \E body \in RoleBodies : RegisterLookup(r, body, TRUE)
    \/ RegisterCreate(r)
    \/ \E body \in LoginInputs : Login(r, body, TRUE)
    \/ Logout(r, TRUE)
    \/ Respond(r)

SpecRoles == InitAuth /\ [][NextRoles]_vars
SpecGate == InitAuth /\ [][NextGate]_vars

\* One user registers and logs in, roles are changed behind the API, and
\* requests come to the routes with the tokens issued.
RoleChangeLogins ==
  [name : {""}, email : {AliceEmail}, password : {Secret1, HashPassword(Secret1)}]

NextRoleChange ==
  \/ AllIdle /\ Tick
  \/ AllIdle /\ \E u \in users, role \in Roles : StoreSetRole(u, role)
  \/ \E r \in SeqSlots :
       \/ RegisterLookup(r, [name |-> "Alice", email |-> AliceEmail, password |-> Secret1], TRUE)
       \/ RegisterCreate(r)
       \/ \E body \in RoleChangeLogins : Login(r, body, TRUE)
       \/ \E route \in Routes, authHeader \in AuthHeaders :
            ServeRoute(r, route, authHeader, TRUE)
       \/ Respond(r)

SpecRoleChange == InitAuth /\ [][NextRoleChange]_vars

\* Requests run one after another against a store whose calls inside
\* ValidateTicket may fail.
NextValidateFaults ==
  \E r \in SeqSlots :
    \/ TicketStep(r, PurchaseInputs, TicketIDs, TRUE)
    \/ ValidateSaveFails(r)
    \/ ValidateLogFails(r)

SpecValidateFaults == InitTickets /\ [][NextValidateFaults]_vars

\* The life of a ticket: purchases of one ticket for the first event and
\* validations, which overlap, against a store whose calls inside
\* ValidateTicket may fail.
LifecyclePurchaseInputs ==
  {input \in OverlapPurchaseInputs : input.id = 1 /\ input.quantity = 1}

\* Two requests at a time.
PairSlots == {1, 2}

NextLifecycle ==
  \E r \in PairSlots :
    \/ CreateEvent(r, MaxCapacity, MaxTime)
    \/ \E input \in LifecyclePurchaseInputs : PurchaseLoad(r, input, FALSE)
    \/ PurchaseCount(r)
    \/ PurchaseCreate(r)
    \/ \E ticketID \in OverlapTicketIDs : ValidateRead(r, ticketID, FALSE)
    \/ ValidateSave(r)
    \/ ValidateLog(r)
    \/ ValidateSaveFails(r)
    \/ ValidateLogFails(r)
    \/ Respond(r)

SpecLifecycle == InitTickets /\ [][NextLifecycle]_vars

(***************************************************************************)
(* utils.ValidateQRCode alone, called on texts (SpecQRCode).  A text is a  *)
(* sequence of characters.                                                 *)
(***************************************************************************)
expectedPrefix == <<"T", "I", "C", "K", "E", "T", "-">>

\* utils.ValidateQRCode: the boolean and the error it returns ("" for nil).
ValidateQRCode(qrData) ==
  IF Len(qrData) < Len(expectedPrefix)
    THEN [ok |-> FALSE, err |-> "invalid QR code format"]
    ELSE [ok |-> TRUE, err |-> ""]

\* The texts called with: the beginnings of "TICKET-1", and each of them
\* with one character replaced by "x".
TicketOne == expectedPrefix \o <<"1">>
QRTexts ==
  LET beginnings == {SubSeq(TicketOne, 1, n) : n \in 0..Len(TicketOne)}
  IN  beginnings \cup
      UNION {{[b EXCEPT ![k] = "x"] : k \in 1..Len(b)} : b \in beginnings}

CheckQRCode(r, qrData) ==
  /\ req[r].pc = "idle"
  /\ LET result == ValidateQRCode(qrData)
     IN  req' = [req EXCEPT ![r] =
                   [Idle EXCEPT !.pc = "done", !.op = "validate_qr", !.header = qrData,
                                !.authed = result.ok, !.message = result.err]]
  /\ UNCHANGED <<users, events, tickets, logs, nextID, now, issued, registered>>

NextQRCode ==
  \E r \in PairSlots :
    \/ \E qrData \in QRTexts : CheckQRCode(r, qrData)
    \/ Respond(r)

SpecQRCode == InitTickets /\ [][NextQRCode]_vars

(***************************************************************************)
(* Progress (SpecLive): two clients at a time send purchases and deletions *)
(* of the first event; the goroutine of each request is scheduled fairly.  *)
(* A purchase is admitted while the tickets it may create fit under        *)
(* MaxTickets.                                                             *)
(***************************************************************************)
\* The iterations the purchase of slot r has still to run.
Remaining(r) ==
  IF req[r].op = "purchase" /\ req[r].pc \in {"purchase_count", "purchase_create"}
    THEN req[r].quantity - req[r].i
    ELSE 0

Admitted(input) ==
  (nextID.ticket - 1) + Remaining(1) + Remaining(2) + input.quantity <= MaxTickets

LivePurchaseInputs ==
  {input \in OverlapPurchaseInputs : input.id = 1 /\ input.quantity >= 1}

\* A request arrives at slot r.
Arrive(r) ==
  \/ CreateEvent(r, MaxCapacity, MaxTime)
  \/ \E input \in LivePurchaseInputs : Admitted(input) /\ PurchaseLoad(r, input, FALSE)
  \/ DeleteLoad(r, 1, FALSE)

\* The handler of slot r takes its next step.
HandlerStep(r) ==
  \/ PurchaseCount(r)
  \/ PurchaseCreate(r)
  \/ PurchaseCreateFails(r)
  \/ DeleteCount(r)
  \/ DeleteRemove(r)

NextLive == \E r \in PairSlots : Arrive(r) \/ HandlerStep(r) \/ Respond(r)

SpecLive ==
  /\ InitTickets
  /\ [][NextLive]_vars
  /\ \A r \in PairSlots : WF_vars(HandlerStep(r))

\* Two updates of the first event at a time, one with the member title and
\* one with the member capacity.
RaceBodies ==
  [provided : {{"title"}, {"capacity"}},
   value : {[title |-> "Opera", description |-> "Music", date |-> MaxTime,
             location |-> "Hall", capacity |-> MaxCapacity, price |-> 0]}]

NextUpdateRace ==
  \E r \in PairSlots :
    \/ CreateEvent(r, 1, MaxTime)
    \/ \E eventID \in 1..MaxEvents, json \in RaceBodies : UpdateLoad(r, eventID, TRUE, json, TRUE)
    \/ UpdateSave(r)
    \/ Respond(r)

SpecUpdateRace == InitTickets /\ [][NextUpdateRace]_vars

\* Two clients at a time: registrations, and logins with the e-mail address
\* of a user and with another one.
LoginPairBodies == [name : {""}, email : Emails, password : Passwords]

NextLoginPair ==
  \E r \in PairSlots :
    \/ \E body \in [name : {"Alice"}, email : Emails, password : {Secret1}] :
         RegisterLookup(r, body, FALSE)
    \/ RegisterCreate(r)
    \/ \E body \in LoginPairBodies : Login(r, body, TRUE)
    \/ Respond(r)

SpecLoginPair == InitAuth /\ [][NextLoginPair]_vars

\* The same with deletions of the event.
NextLogs ==
  \/ NextLifecycle
  \/ \E r \in PairSlots :
       \/ DeleteLoad(r, 1, FALSE)
       \/ DeleteCount(r)
       \/ DeleteRemove(r)

SpecLogs == InitTickets /\ [][NextLogs]_vars

\* The administration of events, one request at a time.
MaxPrice == 1
Titles == {"Concert", "Opera"}
EventDates == {1, MaxTime}
Prices == BadID..MaxPrice
EventValues ==
  [title : Titles, description : {"Music"}, date : EventDates, location : {"Hall"},
   capacity : {BadID} \cup Capacities, price : Prices]
CreateBodies == [provided : {EventFields}, value : EventValues]
UpdateProvided ==
  {{}, EventFields} \cup {{f} : f \in EventFields} \cup {EventFields \ {f} : f \in EventFields}
UpdateValues ==
  [title : {"Opera"}, description : {"Music"}, date : {MaxTime}, location : {"Hall"},
   capacity : {BadID, 0, MaxCapacity}, price : Prices]
UpdateBodies == [provided : UpdateProvided, value : UpdateValues]

NextEventAdmin ==
  \E r \in SeqSlots :
    \/ \E bodyOk \in BOOLEAN, json \in CreateBodies : CreateEventWith(r, bodyOk, json)
    \/ \E eventID \in DeleteEventIDs, bodyOk \in BOOLEAN, json \in UpdateBodies :
         UpdateLoad(r, eventID, bodyOk, json, TRUE)
    \/ UpdateSave(r)
    \/ Respond(r)

SpecEventAdmin == InitTickets /\ [][NextEventAdmin]_vars

\* Every workflow that touches the tickets or the capacity of an event, one
\* request at a time: events are created with a capacity of at least 1 and
\* updated with a body that has the member capacity alone.
CapacityBodies ==
  {json \in [provided : {{"capacity"}}, value : EventValues] :
     /\ json.value.title = "Concert" /\ json.value.date = MaxTime /\ json.value.price = 0
     /\ json.value.capacity >= 1}

NextCapacity ==
  \E r \in SeqSlots :
    \/ \E capacity \in 1..MaxCapacity : CreateEvent(r, capacity, MaxTime)
    \/ \E eventID \in 1..MaxEvents, json \in CapacityBodies :
         UpdateLoad(r, eventID, TRUE, json, TRUE)
    \/ UpdateSave(r)
    \/ \E input \in PurchaseInputs : PurchaseLoad(r, input, TRUE)
    \/ PurchaseCount(r)
    \/ PurchaseCreate(r)
    \/ \E ticketID \in TicketIDs : ValidateRead(r, ticketID, TRUE)
    \/ ValidateSave(r)
    \/ ValidateLog(r)
    \/ \E eventID \in DeleteEventIDs : DeleteLoad(r, eventID, TRUE)
    \/ DeleteCount(r)
    \/ DeleteRemove(r)
    \/ Respond(r)

SpecCapacity == InitTickets /\ [][NextCapacity]_vars

\* Ticket codes: purchases of the first event by one user, which overlap,
\* with uuid.New drawing from a set so small that it repeats.
UUIDs == {1, 2}

NextCodes ==
  \E r \in PairSlots :
    \/ CreateEvent(r, MaxCapacity, MaxTime)
    \/ \E input \in OverlapPurchaseInputs : input.id = 1 /\ PurchaseLoad(r, input, FALSE)
    \/ PurchaseCount(r)
    \/ \E uuid \in UUIDs : PurchaseCreateWith(r, uuid)
    \/ Respond(r)

SpecCodes == InitTickets /\ [][NextCodes]_vars

(***************************************************************************)
(* The event workflows: purchases and deletions that overlap (SpecEvents)  *)
(* and requests run one after another (SpecEventsSeq).                     *)
(***************************************************************************)
EventStep(r, purchases, eventIDs, snapshot) ==
  \/ \E capacity \in Capacities, date \in Dates : CreateEvent(r, capacity, date)
  \/ \E input \in purchases : PurchaseLoad(r, input, snapshot)
  \/ PurchaseCount(r)
  \/ PurchaseCreate(r)
  \/ \E eventID \in eventIDs : DeleteLoad(r, eventID, snapshot)
  \/ DeleteCount(r)
  \/ DeleteRemove(r)
  \/ Respond(r)

NextEvents ==
  \E r \in Slots : EventStep(r, OverlapPurchaseInputs, 1..MaxEvents, FALSE)

NextEventsSeq ==
  \E r \in SeqSlots : EventStep(r, PurchaseInputs, DeleteEventIDs, TRUE)

SpecEvents == InitTickets /\ [][NextEvents]_vars

\* Requests run one after another against a store whose calls inside
\* PurchaseTicket and DeleteEvent may fail.
NextStoreFaults ==
  \E r \in SeqSlots :
    \/ EventStep(r, PurchaseInputs, DeleteEventIDs, TRUE)
    \/ \E input \in PurchaseInputs : PurchaseLoadFails(r, input, TRUE)
    \/ PurchaseCountFails(r)
    \/ PurchaseCreateFails(r)
    \/ \E eventID \in DeleteEventIDs : DeleteLoadFails(r, eventID, TRUE)
    \/ DeleteCountFails(r)
    \/ DeleteRemoveFails(r)

SpecStoreFaults == InitTickets /\ [][NextStoreFaults]_vars
SpecEventsSeq == InitTickets /\ [][NextEventsSeq]_vars

(***************************************************************************)
(* The credential service alone: tokens are generated, time passes, token  *)
(* strings are validated (SpecToken).                                      *)
(***************************************************************************)
TokenUsers == [id : 1..MaxUsers, role : Roles]

\* A token string with the signature segment written with its padding.
Reencoded(tokenString) ==
  <<tokenString[1], [tokenString[2] EXCEPT !.kind = "signature="]>>

\* The payload of a token string replaced, the signature kept.
WithPayload(tokenString, claims) ==
  <<[tokenString[1] EXCEPT !.claims = claims], tokenString[2]>>

\* The token strings presented to ValidateToken: for each token issued, the
\* string itself, the string with its signature written another way, the
\* claims signed with another key, and the string with the role, the user
\* id or the expiry of its payload changed; and a string that is no token.
TokenStrings ==
  {<<JunkPiece>>}
  \cup {SignedString(c, jwtKey) : c \in issued}
  \cup {Reencoded(SignedString(c, jwtKey)) : c \in issued}
  \cup {SignedString(c, OtherKey) : c \in issued}
  \cup {WithPayload(SignedString(c, jwtKey), [c EXCEPT !.role = "admin"]) : c \in issued}
  \cup {WithPayload(SignedString(c, jwtKey), [c EXCEPT !.user_id = 1]) : c \in issued}
  \cup {WithPayload(SignedString(c, jwtKey), [c EXCEPT !.exp = @ + 1]) : c \in issued}

\* auth.GenerateToken is called for a user.
IssueToken(r, user) ==
  /\ req[r].pc = "idle"
  /\ req' = [req EXCEPT ![r] = [Idle EXCEPT !.pc = "done", !.op = "generate",
                                            !.id = user.id, !.token = GenerateToken(user)]]
  /\ UNCHANGED <<users, events, tickets, logs, nextID, now, issued, registered>>

\* auth.ValidateToken is called on a token string; the slot keeps the
\* string, whether an error came back, and the claims of the token returned.
VerifyToken(r, tokenString) ==
  /\ req[r].pc = "idle"
  /\ LET token == ValidateToken(tokenString)
     IN  req' = [req EXCEPT ![r] =
                   [Idle EXCEPT !.pc = "done", !.op = "verify", !.header = tokenString,
                                !.authed = ~token.err,
                                !.ctx = [user_id |-> token.claims.user_id,
                                         user_role |-> token.claims.role]]]
  /\ UNCHANGED <<users, events, tickets, logs, nextID, now, issued, registered>>

NextToken ==
  \/ AllIdle /\ Tick
  \/ \E r \in SeqSlots :
       \/ \E user \in TokenUsers : IssueToken(r, user)
       \/ \E tokenString \in TokenStrings : VerifyToken(r, tokenString)
       \/ Respond(r)

SpecToken == InitAuth /\ [][NextToken]_vars

(***************************************************************************)
(* Reading tickets: two users purchase, and users and admins read, one     *)
(* request after another (SpecRead).                                       *)
(***************************************************************************)
ReadCallers == {1, 2}
ReadPurchaseInputs ==
  [id : 1..MaxEvents, caller : ReadCallers, quantity : {1}, bodyOk : {TRUE}]

\* The contexts JWTAuth can attach, and the context without a user.
ReadContexts == {NoCtx} \cup [user_id : ReadCallers, user_role : Roles]

NextRead ==
  \E r \in SeqSlots :
    \/ \E capacity \in Capacities, date \in Dates : CreateEvent(r, capacity, date)
    \/ \E input \in ReadPurchaseInputs : PurchaseLoad(r, input, TRUE)
    \/ PurchaseCount(r)
    \/ PurchaseCreate(r)
    \/ \E ctx \in ReadContexts : GetTickets(r, ctx, TRUE)
    \/ \E ticketID \in TicketIDs, ctx \in ReadContexts : GetTicket(r, ticketID, ctx, TRUE)
    \/ Respond(r)

SpecRead == InitTickets /\ [][NextRead]_vars

\* Register requests that overlap.
NextRegisterRace ==
  \E r \in Slots :
    \/ \E body \in RegisterInputs : RegisterLookup(r, body, FALSE)
    \/ RegisterCreate(r)
    \/ Respond(r)

SpecRegisterRace == InitAuth /\ [][NextRegisterRace]_vars

Spec == SpecTickets

(***************************************************************************)
(* Properties of the ticket workflows.                                     *)
(***************************************************************************)
Done(r, op) == req[r].pc = "done" /\ req[r].op = op

\* The event a request names, as the store held it when the request began
\* (no request changes an event in these workflows).
EventOf(q) == CHOOSE e \in events : e.id = q.id

\* C1: for overlapping PurchaseTicket requests against an event with
\* capacity C, the number of tickets ever created for the event never
\* exceeds C.
C1_NeverOversold ==
  \A e \in events : Cardinality(TicketsOf(e.id)) <= e.capacity

\* A purchase that ran alone against an existing event whose date is in the
\* future, with a quantity in the range the request type declares.
PurchaseRanAlone(r) ==
  /\ Done(r, "purchase")
  /\ req[r].id # BadID /\ req[r].caller # NoID /\ req[r].bodyOk
  /\ \E e \in events : e.id = req[r].id /\ e.date > now
  /\ req[r].quantity \in QuantityMin..QuantityMax

AvailableBefore(q) ==
  EventOf(q).capacity - Cardinality({t \in q.pre.tickets : t.event_id = q.id})

\* C2: a PurchaseTicket request run alone against an existing future event
\* with available capacity C answers 201 and has created exactly N tickets,
\* all of that event, if and only if N <= C; otherwise it answers 400 and
\* the tickets are those from before the request.
C2_PurchaseIffCapacity ==
  \A r \in Slots : PurchaseRanAlone(r) =>
    LET q == req[r]
        new == tickets \ q.pre.tickets
    IN  /\ (q.status = StatusCreated) <=> (q.quantity <= AvailableBefore(q))
        /\ q.status = StatusCreated =>
             /\ q.pre.tickets \subseteq tickets
             /\ Cardinality(new) = q.quantity
             /\ \A t \in new : t.event_id = q.id
        /\ q.status # StatusCreated =>
             /\ q.status = StatusBadRequest
             /\ tickets = q.pre.tickets

\* A purchase of the whole remaining capacity of two has succeeded.
C2_Witness ==
  \E r \in Slots :
    /\ PurchaseRanAlone(r)
    /\ req[r].quantity = 2 /\ AvailableBefore(req[r]) = 2
    /\ req[r].status = StatusCreated

\* No request is between two of its store calls.
Quiescent == \A r \in Slots : req[r].pc \in {"idle", "done"}

TicketBefore(q) == CHOOSE t \in q.pre.tickets : t.id = q.id

\* C3: with requests run one after another, ValidateTicket on a ticket whose
\* status is valid answers 200, leaves the ticket used and adds exactly one
\* AttendanceLog, which is of that ticket; ValidateTicket on a ticket that
\* is used (every later request) answers 400 and adds no log; so between
\* requests a used ticket has exactly one log and a valid ticket none.
C3_ValidateOnce ==
  /\ \A r \in Slots :
       (Done(r, "validate") /\ \E t \in req[r].pre.tickets : t.id = req[r].id) =>
         LET q == req[r]
             before == TicketBefore(q)
             new == logs \ q.pre.logs
         IN  /\ before.status = "valid" =>
                  /\ q.status = StatusOK
                  /\ [before EXCEPT !.status = "used"] \in tickets
                  /\ q.pre.logs \subseteq logs
                  /\ Cardinality(new) = 1
                  /\ \A l \in new : l.ticket_id = q.id
             /\ before.status = "used" =>
                  /\ q.status = StatusBadRequest
                  /\ logs = q.pre.logs
                  /\ tickets = q.pre.tickets
  /\ Quiescent =>
       \A t \in tickets :
         Cardinality(LogsOf(t.id)) = IF t.status = "used" THEN 1 ELSE 0

\* A second validation of a ticket has been refused.
C3_Witness ==
  \E r \in Slots :
    /\ Done(r, "validate")
    /\ \E t \in req[r].pre.tickets : t.id = req[r].id /\ t.status = "used"
    /\ req[r].status = StatusBadRequest
    /\ Cardinality(LogsOf(req[r].id)) = 1

\* C4: of the ValidateTicket requests for one ticket that overlap, at most
\* one answers 200, and at most one AttendanceLog is created for the ticket.
C4_SingleCheckIn ==
  /\ \A t \in tickets : Cardinality(LogsOf(t.id)) <= 1
  /\ \A r1, r2 \in Slots :
       (/\ r1 # r2
        /\ Done(r1, "validate") /\ Done(r2, "validate")
        /\ req[r1].id = req[r2].id)
       => ~(req[r1].status = StatusOK /\ req[r2].status = StatusOK)

(***************************************************************************)
(* Properties of the middleware chain.                                     *)
(***************************************************************************)
HasBearerPrefix(authHeader) == authHeader # <<>> /\ Head(authHeader) = BearerPiece

\* The header is "Bearer " followed by a token string GenerateToken made.
IsBearerOfGenerated(authHeader) ==
  /\ Len(authHeader) = 3
  /\ authHeader = BearerHeader(SignedString(authHeader[2].claims, jwtKey))

ClaimsIn(authHeader) == authHeader[2].claims

\* The request carries "Bearer <t>", t made by GenerateToken for a user that
\* is in the store, and t has not expired.
PresentsValidToken(q) ==
  /\ IsBearerOfGenerated(q.header)
  /\ now <= ClaimsIn(q.header).exp
  /\ \E u \in users : u.id = ClaimsIn(q.header).user_id

\* C5: a request that carries "Bearer <t>", t made by GenerateToken for a
\* user still in the store and not expired, passes JWTAuth, and what follows
\* JWTAuth gets the user_id and the role of t; on a protected route that is
\* the handler.
C5_ValidTokenPasses ==
  \A r \in Slots : (Done(r, "route") /\ PresentsValidToken(req[r])) =>
    /\ req[r].authed
    /\ req[r].ctx.user_id = ClaimsIn(req[r].header).user_id
    /\ req[r].ctx.user_role = ClaimsIn(req[r].header).role
    /\ req[r].route = "protected" => req[r].invoked

\* The user a token names is not in the store.
TokenUserAbsent(authHeader) ==
  /\ HasBearerPrefix(authHeader)
  /\ ~ValidateToken(Tail(authHeader)).err
  /\ \A u \in users : u.id # ValidateToken(Tail(authHeader)).claims.user_id

\* C6: JWTAuth answers 401 and does not call the handler when the header is
\* absent, when it does not begin with "Bearer ", when ValidateToken fails
\* on what follows "Bearer ", and when the user the token names is not in
\* the store.
C6_GateRefuses ==
  \A r \in Slots :
    (/\ Done(r, "route")
     /\ \/ req[r].header = <<>>
        \/ ~HasBearerPrefix(req[r].header)
        \/ ValidateToken(Tail(req[r].header)).err
        \/ TokenUserAbsent(req[r].header))
    => /\ req[r].status = StatusUnauthorized
       /\ ~req[r].authed
       /\ ~req[r].invoked

\* A token that verifies, of a user deleted since, has been refused.
C6_Witness ==
  \E r \in Slots :
    /\ Done(r, "route")
    /\ TokenUserAbsent(req[r].header)
    /\ req[r].status = StatusUnauthorized

\* C7: on a route of the admin group the handler runs only for a request
\* that passed JWTAuth with the role admin, and a request that presents a
\* valid token of another role is answered 403.
C7_AdminOnly ==
  \A r \in Slots : (Done(r, "route") /\ req[r].route = "admin") =>
    /\ req[r].invoked => (req[r].authed /\ req[r].ctx.user_role = "admin")
    /\ (PresentsValidToken(req[r]) /\ ClaimsIn(req[r].header).role # "admin") =>
         (req[r].status = StatusForbidden /\ ~req[r].invoked)

(***************************************************************************)
(* Properties of Register and Login.                                       *)
(***************************************************************************)
\* The registrations answered 201 before the request in slot r.
RegisteredBefore(r) == {g \in registered : g.id # req[r].id \/ req[r].op # "register"}

\* C8: after a Register with e-mail address e and password p was answered
\* 201, a Login with e and p is answered 200 with a token that
\* ValidateToken accepts and that carries the id and the role of that user.
C8_LoginAfterRegister ==
  \A r \in Slots : \A g \in registered :
    (Done(r, "login") /\ g.email = req[r].body.email /\ g.password = req[r].body.password) =>
      /\ req[r].status = StatusOK
      /\ ~ValidateToken(req[r].token).err
      /\ ValidateToken(req[r].token).claims.user_id = g.id
      /\ \E u \in users : u.id = g.id /\ u.role = ValidateToken(req[r].token).claims.role

\* No user has the e-mail address of the login, or one has and the stored
\* hash is not a bcrypt hash of the password of the login.
BadCredentials(q) ==
  \/ \A u \in q.pre.users : u.email # q.body.email
  \/ \E u \in q.pre.users : u.email = q.body.email /\ u.password # BcryptHash(q.body.password)

StoreAsBefore(q) ==
  /\ users = q.pre.users
  /\ events = q.pre.events
  /\ tickets = q.pre.tickets
  /\ logs = q.pre.logs

\* C9 as stated: Login answers 401 and issues no token when no user has the
\* e-mail address and when the password does not verify; Login never
\* changes the store.
C9_LoginRefused401 ==
  \A r \in Slots : Done(r, "login") =>
    /\ BadCredentials(req[r]) => (req[r].status = StatusUnauthorized /\ req[r].token = <<>>)
    /\ StoreAsBefore(req[r])

\* C9 as amended: a Login whose body binds (a well-formed e-mail address, a
\* password that is not empty) answers 401 and issues no token when no user
\* has the e-mail address and when the password does not verify; a Login
\* whose body does not bind answers 400 and issues no token; Login never
\* changes the store.
C9_LoginRefused ==
  \A r \in Slots : Done(r, "login") =>
    /\ (BindLogin(req[r].body) /\ BadCredentials(req[r])) =>
         (req[r].status = StatusUnauthorized /\ req[r].token = <<>>)
    /\ ~BindLogin(req[r].body) =>
         (req[r].status = StatusBadRequest /\ req[r].token = <<>>)
    /\ StoreAsBefore(req[r])

\* A login with the e-mail address of a user and another user's password
\* has been refused.
C9_Witness ==
  \E r \in Slots :
    /\ Done(r, "login")
    /\ \E u \in users :
         /\ u.email = req[r].body.email
         /\ req[r].body.password \in Passwords
         /\ \E g \in registered : g.id = u.id /\ g.password # req[r].body.password
    /\ req[r].status = StatusUnauthorized

\* C10: with requests run one after another, once a Register with e-mail
\* address e was answered 201, a later Register whose body binds and carries
\* e is answered 409 and leaves the users as they were.
C10_DuplicateEmailConflict ==
  \A r \in Slots :
    (/\ Done(r, "register")
     /\ BindRegister(req[r].body)
     /\ \E g \in RegisteredBefore(r) : g.email = req[r].body.email)
    => /\ req[r].status = StatusConflict
       /\ users = req[r].pre.users

\* A second registration of an e-mail address has been refused.
C10_Witness ==
  \E r \in Slots :
    /\ Done(r, "register")
    /\ \E g \in RegisteredBefore(r) : g.email = req[r].body.email
    /\ req[r].status = StatusConflict

\* C11: when Register requests with one e-mail address overlap, at most one
\* user has that address, and a request that finds the address taken by a
\* user it did not create is answered 409.
C11_RaceConflict ==
  /\ \A e \in Emails : Cardinality(UsersWithEmail(e)) <= 1
  /\ \A r \in Slots :
       (/\ Done(r, "register")
        /\ BindRegister(req[r].body)
        /\ \E u \in users : u.email = req[r].body.email /\ u.id # req[r].id)
       => req[r].status = StatusConflict

\* C12: a PurchaseTicket request whose quantity is outside 1..10 is answered
\* 400 and creates no ticket (here for a request that reached an existing
\* event whose date is in the future).
C12_QuantityRange ==
  \A r \in Slots :
    (/\ Done(r, "purchase")
     /\ req[r].id # BadID /\ req[r].caller # NoID /\ req[r].bodyOk
     /\ \E e \in events : e.id = req[r].id /\ e.date > now
     /\ req[r].quantity \notin QuantityMin..QuantityMax)
    => /\ req[r].status = StatusBadRequest
       /\ tickets = req[r].pre.tickets

\* C13: a PurchaseTicket request for an event whose date is not later than
\* the time of the request, the date equal to that time included, is
\* answered 400 and creates no ticket (here for a quantity in 1..10).
C13_NotFutureRejected ==
  \A r \in Slots :
    (/\ Done(r, "purchase")
     /\ req[r].id # BadID /\ req[r].caller # NoID /\ req[r].bodyOk
     /\ req[r].quantity \in QuantityMin..QuantityMax
     /\ \E e \in events : e.id = req[r].id /\ e.date <= now)
    => /\ req[r].status = StatusBadRequest
       /\ tickets = req[r].pre.tickets

(***************************************************************************)
(* Properties of the event workflows.                                      *)
(***************************************************************************)
TicketsBefore(q) == {t \in q.pre.tickets : t.event_id = q.id}

\* C14: with requests run one after another, DeleteEvent on an existing
\* event without tickets removes the event and answers 200; DeleteEvent on
\* an event with a ticket answers 400 and the event and the tickets stay.
C14_DeleteIffNoTickets ==
  \A r \in Slots : \A e \in req[r].pre.events :
    (Done(r, "delete_event") /\ e.id = req[r].id) =>
      /\ TicketsBefore(req[r]) = {} =>
           /\ req[r].status = StatusOK
           /\ events = req[r].pre.events \ {e}
           /\ tickets = req[r].pre.tickets
      /\ TicketsBefore(req[r]) # {} =>
           /\ req[r].status = StatusBadRequest
           /\ events = req[r].pre.events
           /\ tickets = req[r].pre.tickets

\* The deletion of an event with a ticket has been refused.
C14_Witness ==
  \E r \in Slots :
    /\ Done(r, "delete_event")
    /\ req[r].status = StatusBadRequest
    /\ \E e \in events : e.id = req[r].id
    /\ TicketsOf(req[r].id) # {}

\* C15: under any interleaving of PurchaseTicket and DeleteEvent requests,
\* every ticket in the store references an event in the store.
C15_NoOrphanTicket ==
  \A t \in tickets : \E e \in events : e.id = t.event_id

(***************************************************************************)
(* Properties of the life of a ticket.                                     *)
(***************************************************************************)
\* The step creates ticket t, and it is a PurchaseTicket that does.
CreatedByPurchase(t) ==
  \E r \in Slots :
    /\ req[r].pc = "purchase_create"
    /\ req[r].op = "purchase"
    /\ req'[r].created = Append(req[r].created, t.id)

\* The step is the db.Save of a ValidateTicket for ticket t.
SavedByValidate(t) ==
  \E r \in Slots :
    /\ req[r].pc = "validate_save"
    /\ req[r].op = "validate"
    /\ req[r].ticket.id = t.id

\* C16: a step that adds a ticket is a step of PurchaseTicket and the ticket
\* is valid; a step that changes the status of a ticket is a step of
\* ValidateTicket and takes it from valid to used; so the status changes at
\* most once and never from used to valid.
C16_TicketLifecycle ==
  [][/\ \A t \in tickets' :
          (\A o \in tickets : o.id # t.id) =>
            (t.status = "valid" /\ CreatedByPurchase(t))
     /\ \A o \in tickets : \A t \in tickets' :
          (o.id = t.id /\ o.status # t.status) =>
            (o.status = "valid" /\ t.status = "used" /\ SavedByValidate(t))
     /\ \A o \in tickets : \E t \in tickets' : t.id = o.id]_vars

\* A ticket has been purchased and then validated.
C16_Witness ==
  \E t \in tickets : \E r \in Slots :
    /\ t.status = "used"
    /\ Done(r, "validate")
    /\ req[r].id = t.id
    /\ req[r].status = StatusOK

\* C17: between requests, also after a store call inside ValidateTicket has
\* failed, a used ticket is referenced by exactly one AttendanceLog and a
\* valid ticket by none.
C17_UsedIffLogged ==
  Quiescent =>
    \A t \in tickets :
      Cardinality(LogsOf(t.id)) = IF t.status = "used" THEN 1 ELSE 0

(***************************************************************************)
(* Properties of the credential service.                                   *)
(***************************************************************************)
\* The claims GenerateToken writes for a user at some time.
IssuableClaims ==
  {c \in [user_id : 1..MaxUsers, role : Roles, iat : 0..MaxClock,
          exp : 0..(MaxClock + TokenTTL)] : c.exp = c.iat + TokenTTL}

\* The string is one GenerateToken returns, with claims c.
IsIssuedString(tokenString, c) == tokenString = SignedString(c, jwtKey)

\* The payload of the string is not the one its signature was made for, or
\* the signature is not one made with jwtKey.
Tampered(tokenString) ==
  /\ Len(tokenString) = 2
  /\ tokenString[2].kind \in {"signature", "signature="}
  /\ \/ tokenString[1].claims # tokenString[2].claims
     \/ tokenString[2].key # jwtKey

\* C18: ValidateToken on what GenerateToken returned for user id U and role
\* X, not later than 24 hours after the token was issued, succeeds and
\* yields U and X; ValidateToken fails on a token whose expiry has passed
\* and on a token whose payload or signature is not that of an issued one.
C18_TokenRoundTrip ==
  \A r \in Slots : Done(r, "verify") =>
    /\ \A c \in IssuableClaims :
         (IsIssuedString(req[r].header, c) /\ c.iat <= now /\ now <= c.iat + TokenTTL) =>
           /\ req[r].authed
           /\ req[r].ctx.user_id = c.user_id
           /\ req[r].ctx.user_role = c.role
    /\ \A c \in IssuableClaims :
         (IsIssuedString(req[r].header, c) /\ now > c.exp) => ~req[r].authed
    /\ Tampered(req[r].header) => ~req[r].authed

\* A token has been accepted on the last moment of its 24 hours.
C18_Witness ==
  \E r \in Slots : \E c \in issued :
    /\ Done(r, "verify")
    /\ IsIssuedString(req[r].header, c)
    /\ now = c.iat + TokenTTL
    /\ req[r].authed
    /\ req[r].ctx.user_role = c.role

\* ValidateToken accepts the token string of claims c.
Accepted(c) == ~ValidateToken(SignedString(c, jwtKey)).err

OwnBefore(q) == {t \in q.pre.tickets : t.user_id = q.ctx.user_id}

\* C20: to a caller who is not admin GetTickets returns exactly the caller's
\* tickets, and GetTicket answers 404 for a ticket of another user and
\* returns a ticket of the caller, so both responses are functions of the
\* caller's tickets alone; to an admin GetTickets returns all tickets and
\* GetTicket any ticket in the store.
C20_OwnTicketsOnly ==
  \A r \in Slots :
    LET q == req[r]
        admin == q.ctx.user_role = "admin"
    IN  /\ (Done(r, "get_tickets") /\ q.ctx.user_id # NoID) =>
             /\ q.status = StatusOK
             /\ q.result = IF admin THEN q.pre.tickets ELSE OwnBefore(q)
        /\ (Done(r, "get_ticket") /\ q.ctx.user_id # NoID /\ q.id # BadID) =>
             /\ \A t \in q.pre.tickets :
                  (t.id = q.id /\ (admin \/ t.user_id = q.ctx.user_id)) =>
                    (q.status = StatusOK /\ q.result = {t})
             /\ (\A t \in q.pre.tickets :
                   t.id = q.id => (~admin /\ t.user_id # q.ctx.user_id)) =>
                  (q.status = StatusNotFound /\ q.result = {})

\* A user who owns a ticket has asked for the ticket of another user and
\* got 404.
C20_Witness ==
  \E r \in Slots : \E t \in tickets :
    /\ Done(r, "get_ticket")
    /\ req[r].ctx.user_role = "user"
    /\ t.id = req[r].id
    /\ t.user_id # req[r].ctx.user_id
    /\ OwnBefore(req[r]) # {}
    /\ req[r].status = StatusNotFound

(***************************************************************************)
(* Properties of ticket codes.                                             *)
(***************************************************************************)
\* C21: no two tickets in the store have the same code, the tickets of
\* repeated and overlapping purchases of one event by one user with the
\* same number in the batch included.
C21_CodesUnique ==
  \A t1, t2 \in tickets : t1.qr_code = t2.qr_code => t1.id = t2.id

\* Two tickets of one event and one user with the same number in the batch
\* are in the store.
C21_Witness ==
  \E t1, t2 \in tickets :
    /\ t1.id # t2.id
    /\ t1.event_id = t2.event_id
    /\ t1.user_id = t2.user_id
    /\ t1.qr_code[3] = t2.qr_code[3]

(***************************************************************************)
(* Properties of the administration of events.                             *)
(***************************************************************************)
\* C22: every event in the store has a capacity of at least 1 and a price
\* of at least 0: CreateEvent and UpdateEvent never persist an event with a
\* capacity below 1 or a negative price.
C22_EventBounds ==
  \A e \in events : e.capacity >= 1 /\ e.price >= 0

(***************************************************************************)
(* Properties of failing store calls.                                      *)
(***************************************************************************)
\* The stores are as they were.
StoresUnchanged == UNCHANGED <<users, events, tickets, logs>>

\* C23: if any store call made by PurchaseTicket or DeleteEvent fails, the
\* count query included, the request is answered 500 without a retry and
\* performs no later write.
C23_FailureAnswered500 ==
  /\ [](\A r \in SeqSlots :
          (req[r].op \in {"purchase", "delete_event"} /\ req[r].failed # "") =>
            (req[r].pc = "done" /\ req[r].status = StatusInternalServerError))
  /\ [][\A r \in SeqSlots :
          (req[r].op \in {"purchase", "delete_event"} /\ req[r].failed # "") =>
            StoresUnchanged]_vars

\* C24: if persisting the k-th ticket of a request for N fails, 1 < k <= N,
\* the k-1 tickets created before stay, no further ticket is created, and
\* the caller receives an error response and no ticket list.
C24_PartialPurchase ==
  \A r \in SeqSlots :
    (Done(r, "purchase") /\ req[r].failed = "create" /\ req[r].i >= 1) =>
      LET q == req[r]
          new == tickets \ q.pre.tickets
      IN  /\ q.pre.tickets \subseteq tickets
          /\ Cardinality(new) = q.i
          /\ q.i < q.quantity
          /\ \A t \in new : t.event_id = q.id /\ t.user_id = q.caller
          /\ q.status = StatusInternalServerError
          /\ q.result = {} /\ q.total = 0

\* The second ticket of a request for two has failed.
C24_Witness ==
  \E r \in SeqSlots :
    /\ Done(r, "purchase") /\ req[r].failed = "create"
    /\ req[r].i = 1 /\ req[r].quantity = 2
    /\ Cardinality(tickets \ req[r].pre.tickets) = 1

ErrorStatuses ==
  {StatusBadRequest, StatusUnauthorized, StatusForbidden, StatusNotFound,
   StatusConflict, StatusInternalServerError}

\* C25: every operation is all-or-nothing: a request answered with an error
\* status leaves users, events, tickets and logs exactly as before.
C25_AllOrNothing ==
  \A r \in SeqSlots :
    (req[r].pc = "done" /\ req[r].status \in ErrorStatuses) => StoreAsBefore(req[r])

(***************************************************************************)
(* Properties of the auth responses.                                       *)
(***************************************************************************)
\* Register or Login of slot r has succeeded.
AuthSucceeded(r) ==
  \/ Done(r, "register") /\ req[r].status = StatusCreated
  \/ Done(r, "login") /\ req[r].status = StatusOK

\* The passwords of the request: the one sent, and the hash the store holds
\* for the user of the response.
SecretsOf(q) == {q.body.password} \cup {u.password : u \in {v \in users : v.id = q.id}}

\* C26 (the members id, name and role are a number and two texts of
\* another kind than a password or a hash: the comparison leaves them out).
\* C26: the user payload returned by a successful Register or Login
\* contains neither the plaintext password nor the stored hash.
C26_NoPasswordInPayload ==
  \A r \in Slots : AuthSucceeded(r) =>
    /\ \A u \in users : u.id = req[r].id =>
         /\ req[r].user.id = u.id
         /\ req[r].user.email = u.email
    /\ \A member \in DOMAIN req[r].user \ {"id", "name", "role"} :
         req[r].user[member] \notin SecretsOf(req[r])

\* A Register and a Login have succeeded.
C26_Witness ==
  /\ \E r \in Slots : Done(r, "login") /\ req[r].status = StatusOK /\ req[r].user.id # NoID
  /\ registered # {}

(***************************************************************************)
(* Properties of the attendance logs.                                      *)
(***************************************************************************)
\* The step is the db.Create of the log of a ValidateTicket, and adds one
\* log of the ticket of the request with the time of the step.
LoggedByValidate ==
  \E r \in PairSlots :
    /\ req[r].op = "validate" /\ req[r].pc = "validate_log"
    /\ req'[r].pc = "done" /\ req'[r].status = StatusOK
    /\ \E l \in logs' \ logs :
         /\ logs' \ logs = {l}
         /\ l.ticket_id = req[r].id
         /\ l.checked_in_at = now

\* C27: attendance logs are append-only: a log that exists in one state
\* exists with the same ticket and the same time in every later state, and
\* logs are created by ValidateTicket only.
C27_LogsAppendOnly ==
  [][/\ logs \subseteq logs'
     /\ \A l \in logs' \ logs : \A k \in logs : k.id # l.id
     /\ logs' # logs => LoggedByValidate]_vars

\* A ticket has a log, and a later validation of it has been refused.
C27_Witness ==
  \E l \in logs : \E r \in PairSlots :
    /\ Done(r, "validate") /\ req[r].id = l.ticket_id
    /\ req[r].status = StatusBadRequest

(***************************************************************************)
(* Properties of the authorization chain.                                  *)
(***************************************************************************)
\* The stages of a route of the protected and of the admin group, in order.
StageOrder(route) ==
  IF route = "admin"
    THEN <<"presented", "validated", "lookup", "resolved", "role", "authorized", "handler">>
    ELSE <<"presented", "validated", "lookup", "resolved", "handler">>

IsPrefix(s, t) == Len(s) <= Len(t) /\ SubSeq(t, 1, Len(s)) = s

\* C28: each request passes the authorization stages in the fixed order:
\* the store is asked for the user only after the token was verified, the
\* role test of AdminAuth runs only after JWTAuth resolved the identity, and
\* a request denied at one stage reaches no later stage and not the handler.
C28_StagesInOrder ==
  \A r \in Slots : Done(r, "route") =>
    LET q == req[r]
    IN  /\ IsPrefix(q.stages, StageOrder(q.route))
        /\ q.invoked <=> q.stages = StageOrder(q.route)
        /\ q.status # StatusOK => ~q.invoked
        /\ q.invoked => q.status = StatusOK

\* A request whose token was verified has been denied at the next stage.
C28_Witness ==
  \E r \in Slots :
    /\ Done(r, "route") /\ req[r].route = "admin"
    /\ req[r].stages = <<"presented", "validated">>
    /\ req[r].status = StatusUnauthorized /\ ~req[r].invoked

(***************************************************************************)
(* Properties of UpdateEvent.                                              *)
(***************************************************************************)
\* An UpdateEvent of slot r has been answered 200, e being the event before
\* the request, with a capacity and a price within their bounds, and f the
\* event after it.
Updated(r, e, f) ==
  /\ Done(r, "update_event") /\ req[r].status = StatusOK
  /\ e \in req[r].pre.events /\ e.id = req[r].id
  /\ e.capacity >= 1 /\ e.price >= 0
  /\ f \in events /\ f.id = req[r].id

\* C29: UpdateEvent changes only the fields the request provides: a field
\* the request omits has after the update the value it had before.
C29_OmittedFieldsKept ==
  \A r \in SeqSlots : \A e \in req[r].pre.events : \A f \in events :
    Updated(r, e, f) =>
      \A field \in EventFields \ req[r].patch.provided : f[field] = e[field]

(***************************************************************************)
(* Properties of the response of PurchaseTicket.                           *)
(***************************************************************************)
\* C30: every ticket created by a successful PurchaseTicket has the event
\* id of the request, the id of the caller and the status valid; the
\* response lists exactly the tickets created by the request and its total
\* equals the quantity requested.
C30_PurchaseResult ==
  \A r \in SeqSlots : (Done(r, "purchase") /\ req[r].status = StatusCreated) =>
    LET q == req[r]
        new == tickets \ q.pre.tickets
    IN  /\ \A t \in new :
             t.event_id = q.id /\ t.user_id = q.caller /\ t.status = StatusValid
        /\ q.result = new
        /\ q.total = q.quantity

(***************************************************************************)
(* Properties of the capacity under updates.                               *)
(***************************************************************************)
\* C31: with requests run one after another, in every reachable state the
\* number of tickets of each event is at most the capacity the event has
\* then, for any sequence of CreateEvent, UpdateEvent, PurchaseTicket,
\* ValidateTicket and DeleteEvent.
C31_WithinCurrentCapacity ==
  \A e \in events : Cardinality(TicketsOf(e.id)) <= e.capacity

(***************************************************************************)
(* Properties of the roles.                                                *)
(***************************************************************************)
\* C32: every user created by Register has the role user, whatever the body
\* of the request holds, and no operation changes the role of a user: no
\* sequence of requests produces a user with the role admin.
C32_NoAdminByAPI ==
  /\ [](\A u \in users : u.role = "user")
  /\ [][\A u \in users : \A v \in users' : v.id = u.id => v.role = u.role]_vars

\* A Register whose body asks for the role admin has created a user.
C32_Witness ==
  \E r \in SeqSlots :
    /\ Done(r, "register") /\ req[r].status = StatusCreated
    /\ "role" \in DOMAIN req[r].body /\ req[r].body.role = "admin"
    /\ \E u \in users : u.id = req[r].id

(***************************************************************************)
(* Properties of the role of a request.                                    *)
(***************************************************************************)
\* The request of slot r came with "Bearer " and a token generated with
\* claims c, which has not expired, for a user whose stored role was
\* another one than the role of the token when the request came.
StaleRoleToken(r, c) ==
  /\ Done(r, "route")
  /\ c \in issued
  /\ req[r].header = BearerHeader(SignedString(c, jwtKey))
  /\ InTime(c)
  /\ \E u \in req[r].pre.users : u.id = c.user_id /\ u.role # c.role

\* C33: when JWTAuth passes a request on, the role it attaches is the role
\* claim of the token and not the role of the user it fetched: after the
\* stored role of a user has changed, requests with a token issued before
\* are authorized by AdminAuth according to the role of the token until
\* the token expires.
C33_TokenRoleDecides ==
  \A r \in SeqSlots : \A c \in issued :
    StaleRoleToken(r, c) =>
      /\ req[r].authed /\ req[r].ctx.user_role = c.role
      /\ req[r].route = "admin" => (req[r].invoked <=> c.role = "admin")
      /\ req[r].route = "protected" => req[r].invoked

(***************************************************************************)
(* Properties of the refusals of Login.                                    *)
(***************************************************************************)
\* The Login of slot r was sent a body that binds, with an e-mail address
\* that no user had.
LoginUnknownEmail(r) ==
  /\ Done(r, "login") /\ IsEmail(req[r].body.email) /\ Len(req[r].body.password) > 0
  /\ \A u \in req[r].pre.users : u.email # req[r].body.email

\* The Login of slot r was sent a body that binds, with the e-mail address
\* of a user and a password that is not the one the stored hash is of.
LoginWrongPassword(r) ==
  /\ Done(r, "login") /\ IsEmail(req[r].body.email) /\ Len(req[r].body.password) > 0
  /\ \E u \in req[r].pre.users :
       u.email = req[r].body.email /\ u.password # BcryptHash(req[r].body.password)

\* C34: Login gives the same response, the status 401 and the same message,
\* for an e-mail address that no user has and for the address of a user
\* with a wrong password.
C34_SameRefusal ==
  \A r1, r2 \in PairSlots :
    (LoginUnknownEmail(r1) /\ LoginWrongPassword(r2)) =>
      /\ req[r1].status = StatusUnauthorized /\ req[r2].status = StatusUnauthorized
      /\ req[r1].message = req[r2].message
      /\ req[r1].token = <<>> /\ req[r2].token = <<>>
      /\ req[r1].user = req[r2].user

\* Both refusals have been given, one to each client.
C34_Witness ==
  \E r1, r2 \in PairSlots : LoginUnknownEmail(r1) /\ LoginWrongPassword(r2)

(***************************************************************************)
(* Properties of overlapping updates.                                      *)
(***************************************************************************)
\* The UpdateEvent requests of slots r1 and r2 for one event have both been
\* answered 200; they set disjoint fields, and each read the event before
\* the other saved it.
UpdatesOverlapped(r1, r2) ==
  /\ r1 # r2
  /\ Done(r1, "update_event") /\ req[r1].status = StatusOK
  /\ Done(r2, "update_event") /\ req[r2].status = StatusOK
  /\ req[r1].id = req[r2].id
  /\ req[r1].patch.provided \cap req[r2].patch.provided = {}
  /\ req[r1].pre.events = req[r2].pre.events

\* C35: when two UpdateEvent requests for one event overlap and set disjoint
\* fields, after both have returned 200 the stored event carries the
\* changes of both.
C35_BothChangesKept ==
  \A r1, r2 \in PairSlots : UpdatesOverlapped(r1, r2) =>
    \A e \in events : e.id = req[r1].id =>
      /\ \A field \in req[r1].patch.provided : e[field] = req[r1].patch.value[field]
      /\ \A field \in req[r2].patch.provided : e[field] = req[r2].patch.value[field]

(***************************************************************************)
(* Properties of ValidateQRCode.                                           *)
(***************************************************************************)
\* The text begins with "TICKET-".
BeginsWithPrefix(qrData) ==
  /\ Len(qrData) >= Len(expectedPrefix)
  /\ SubSeq(qrData, 1, Len(expectedPrefix)) = expectedPrefix

\* C36: ValidateQRCode returns true only for a code that begins with the
\* prefix "TICKET-", and returns false with an error for every code shorter
\* than the prefix.
C36_PrefixChecked ==
  \A r \in PairSlots : Done(r, "validate_qr") =>
    /\ req[r].authed => BeginsWithPrefix(req[r].header)
    /\ Len(req[r].header) < Len(expectedPrefix) =>
         (~req[r].authed /\ req[r].message # "")

(***************************************************************************)
(* Properties of progress.                                                 *)
(***************************************************************************)
\* The handler of slot r is running: the request has arrived and has no
\* response yet.
Running(r) == req[r].pc \notin {"idle", "done"}

\* C37: under fair scheduling every request that has entered a handler gets
\* its response: no handler waits for another request, no store call is
\* tried again, and the loop of PurchaseTicket ends after at most quantity
\* iterations.
C37_EveryRequestAnswered ==
  /\ \A r \in PairSlots : Running(r) ~> (req[r].pc = "done")
  /\ [](\A r \in PairSlots : req[r].op = "purchase" => req[r].i <= req[r].quantity)
  /\ [][\A r \in PairSlots :
          (req[r].pc = "purchase_create" /\ req'[r] # req[r]) =>
            \/ req'[r].pc = "done"
            \/ req'[r].pc = "purchase_create" /\ req'[r].i = req[r].i + 1]_vars

\* Both handlers run a purchase of two tickets at once, one in its second
\* iteration.
C37_Witness ==
  /\ req[1].pc = "purchase_create" /\ req[2].pc = "purchase_create"
  /\ req[1].quantity = 2 /\ req[1].i = 1
====
